---- MODULE Spec2Model ----
(***************************************************************************)
(* Model of the LearnWorlds client: OAuth2Client (src/src/oauth.ts), the   *)
(* credential state and its grant / refresh / revoke operations, and       *)
(* LearnWorldsClient (src/src/client.ts), the request pipeline with its     *)
(* request interceptor, its 401 refresh-and-resend response interceptor    *)
(* and handleError.                                                        *)
(*                                                                         *)
(* Every await of a wire call or of the onTokenRefresh callback is a       *)
(* separate step; code between two awaits runs as one step (a JavaScript   *)
(* continuation runs to its next pending await without interleaving).      *)
(***************************************************************************)
EXTENDS Integers, Sequences, FiniteSets, TLC

\* ------------------------------------------------------------------ bounds
MaxToken == 2
MaxTicks == 1
MaxSends == 4

\* --------------------------------------------------------------- constants
\* an absent string (accessToken?: string is undefined)
None == 0
\* an absent Date (tokenExpiresAt?: Date is undefined)
NoDate == -1
\* const bufferTime = 5 * 60 * 1000
bufferTime == 5 * 60 * 1000

Tokens == 1 .. MaxToken
OptTokens == {None} \cup Tokens

\* expires_in of a token response, in seconds; 0 stands for a response
\* without a usable lifetime (the code tests `if (response.expires_in)`)
ExpiresInValues == {0, 300, 600}

\* TokenResponse (token_type and scope do not influence the client)
TokenResponses ==
    [access_token : Tokens, refresh_token : OptTokens, expires_in : ExpiresInValues]

NoResp == [access_token |-> None, refresh_token |-> None, expires_in |-> 0]

\* the Date arguments a caller hands to setTokens
SetDates == {NoDate, 0, 3 * bufferTime}

Reqs == {"r1", "r2"}
Callers == {"c1", "c2"}
Procs == Reqs \cup Callers

GrantOps ==
    {"exchangeAuthorizationCode", "authenticateWithPassword",
     "authenticateWithClientCredentials"}

VARIABLES
    accessToken,      \* OAuth2Client.accessToken
    refreshToken,     \* OAuth2Client.refreshToken
    tokenExpiresAt,   \* OAuth2Client.tokenExpiresAt (ms), NoDate when absent
    onTokenRefresh,   \* config.onTokenRefresh is configured
    now,              \* the clock read by new Date() (ms)
    call,             \* per caller: the TokenAuthority operation it runs
    req,              \* per gateway request: its position in the pipeline
    dirty             \* per process: another process wrote the credentials
                      \* since this process started its operation

vars == <<accessToken, refreshToken, tokenExpiresAt, onTokenRefresh, now,
          call, req, dirty>>
creds == <<accessToken, refreshToken, tokenExpiresAt>>

\* ------------------------------------------------------------ OAuth2Client

\* getTokens()
getTokens ==
    [accessToken |-> accessToken, refreshToken |-> refreshToken,
     expiresAt |-> tokenExpiresAt]

\* isAuthenticated()
isAuthenticated == accessToken # None

\* variant: the buffer boundary itself does not count as expiring
NeedsRefreshAt_Strict(exp, rt, t) ==
    /\ exp # NoDate
    /\ rt # None
    /\ t > exp - bufferTime

\* variant: the refresh token is not tested
NeedsRefreshAt_NoRefreshToken(exp, rt, t) ==
    /\ exp # NoDate
    /\ t >= exp - bufferTime

\* the test of getAccessToken that sends it to refreshAccessToken
NeedsRefreshAt(exp, rt, t) ==
    /\ exp # NoDate
    /\ rt # None
    /\ t >= exp - bufferTime

NeedsRefresh == NeedsRefreshAt(tokenExpiresAt, refreshToken, now)

\* variant: the refresh token is stored in place of the access token
InstallAccess_Swapped(resp) == resp.refresh_token

\* handleTokenResponse: the three assignments, as functions of the response
InstallAccess(resp) == resp.access_token

\* variant: the refresh token is stored unconditionally
InstallRefresh_Always(resp, rt) == resp.refresh_token

InstallRefresh(resp, rt) ==
    IF resp.refresh_token # None THEN resp.refresh_token ELSE rt

InstallExpiry(resp, exp, t) ==
    IF resp.expires_in # 0 THEN t + resp.expires_in * 1000 ELSE exp

handleTokenResponse(resp) ==
    /\ accessToken' = InstallAccess(resp)
    /\ refreshToken' = InstallRefresh(resp, refreshToken)
    /\ tokenExpiresAt' = InstallExpiry(resp, tokenExpiresAt, now)

\* process p writes the credentials: every other process that is inside an
\* operation (or holds its result) has been interfered with
IsBusy(q) ==
    IF q \in Reqs THEN req[q].pc # "idle" ELSE call[q].pc # "idle"

MarkDirty(p) ==
    dirty' = [q \in Procs |->
                IF q # p /\ IsBusy(q) THEN TRUE ELSE dirty[q]]

Clean(p) == dirty' = [dirty EXCEPT ![p] = FALSE]

\* ----------------------------------------------------------------- callers
\* config.clientId, config.clientSecret
ClientId == "the client id"
ClientSecret == "the client secret"

\* the arguments of the grant methods ("" for a string that is not given)
NoArgs ==
    [code |-> "", redirectUri |-> "", username |-> "", password |-> "",
     scope |-> ""]

GrantArgs(op) ==
    CASE op = "exchangeAuthorizationCode" ->
            {[NoArgs EXCEPT !.code = "the code", !.redirectUri = "the uri"]}
      [] op = "authenticateWithPassword" ->
            {[NoArgs EXCEPT !.username = "the user", !.password = "the pw",
                            !.scope = sc] : sc \in {"", "the scope"}}
      [] op = "authenticateWithClientCredentials" ->
            {[NoArgs EXCEPT !.scope = sc] : sc \in {"", "the scope"}}

\* the body of a POST, as the set of its <<name, value>> parameters
NoParams == {}

ClientParams ==
    {<<"client_id", ClientId>>, <<"client_secret", ClientSecret>>}

\* variant: the scope parameter is appended whatever its value
ScopeParam_Always(scope) == {<<"scope", scope>>}

\* if (scope) params.append('scope', scope)
ScopeParam(scope) == IF scope # "" THEN {<<"scope", scope>>} ELSE {}

GrantParams(op, args) ==
    CASE op = "exchangeAuthorizationCode" ->
            {<<"grant_type", "authorization_code">>, <<"code", args.code>>,
             <<"redirect_uri", args.redirectUri>>} \cup ClientParams
      [] op = "authenticateWithPassword" ->
            {<<"grant_type", "password">>, <<"username", args.username>>,
             <<"password", args.password>>} \cup ClientParams
                \cup ScopeParam(args.scope)
      [] op = "authenticateWithClientCredentials" ->
            {<<"grant_type", "client_credentials">>} \cup ClientParams
                \cup ScopeParam(args.scope)

RefreshParams(rt) ==
    {<<"grant_type", "refresh_token">>, <<"refresh_token", rt>>}
        \cup ClientParams

RevokeParams(token) == {<<"token", token>>} \cup ClientParams

\* config.redirectUri || ''
RedirectUri == "the redirect uri"

\* variant: the state parameter is appended whatever its value
StateParam_Always(state) == {<<"state", state>>}

\* if (state) params.append('state', state)
StateParam(state) == IF state # "" THEN {<<"state", state>>} ELSE {}

\* the default of the parameter scope of getAuthorizationUrl
ScopeOrDefault(scope) == IF scope # "" THEN scope ELSE "read_user_profile"

\* getAuthorizationUrl(scope, state): the URL, as its path and parameters
NoUrl == [path |-> "", params |-> {}]

getAuthorizationUrl(scope, state) ==
    [path |-> "/oauth2/authorize",
     params |-> {<<"client_id", ClientId>>, <<"redirect_uri", RedirectUri>>,
                 <<"response_type", "code">>,
                 <<"scope", ScopeOrDefault(scope)>>} \cup StateParam(state)]

\* the argument of setTokens: accessToken, refreshToken?, expiresAt?
NoTokens == [accessToken |-> None, refreshToken |-> None, expiresAt |-> NoDate]

NoPre == [at |-> None, rt |-> None, exp |-> NoDate, now |-> 0]

\* op, pc: the operation and where it stands; tok: the argument of
\* revokeToken; sent: the token put on the wire; res: "ok" or the failure
\* thrown; ret: the string returned; out: the TokenResponse returned.
\* History: resp, the response the token endpoint delivered; wires, the
\* wire calls made; pre, the credentials and the time when the call began;
\* cbs, the invocations of onTokenRefresh: the argument, what getTokens()
\* showed when it was invoked, and whether it has completed; arg, the
\* argument of setTokens; args, the arguments of a grant method; body, the
\* parameters posted; state, url: the argument and the result of
\* getAuthorizationUrl.
IdleCall ==
    [op |-> "none", pc |-> "idle", tok |-> None, sent |-> None,
     res |-> "none", ret |-> None, out |-> NoResp, resp |-> NoResp,
     wires |-> 0, pre |-> NoPre, cbs |-> <<>>, arg |-> NoTokens,
     args |-> NoArgs, body |-> NoParams, state |-> "", url |-> NoUrl]

\* a call of operation op begins
Begin(op) ==
    [IdleCall EXCEPT !.op = op,
                     !.pre = [at |-> accessToken, rt |-> refreshToken,
                              exp |-> tokenExpiresAt, now |-> now]]

\* the three grant methods: POST /oauth2/token, then handleTokenResponse
CallGrant(c, op, args) ==
    /\ call[c].pc = "idle"
    /\ call' = [call EXCEPT ![c] =
            [Begin(op) EXCEPT !.pc = "wire", !.wires = 1, !.args = args,
                              !.body = GrantParams(op, args)]]
    /\ Clean(c)
    /\ UNCHANGED <<creds, onTokenRefresh, now, req>>

\* refreshAccessToken()
CallRefresh(c) ==
    /\ call[c].pc = "idle"
    /\ IF refreshToken = None
       THEN call' = [call EXCEPT ![c] =
                [Begin("refreshAccessToken") EXCEPT !.pc = "done",
                                 !.res = "NoRefreshToken"]]
       ELSE call' = [call EXCEPT ![c] =
                [Begin("refreshAccessToken") EXCEPT !.pc = "wire",
                                 !.sent = refreshToken, !.wires = 1,
                                 !.body = RefreshParams(refreshToken)]]
    /\ Clean(c)
    /\ UNCHANGED <<creds, onTokenRefresh, now, req>>

\* variant: a missing access token is fetched with the refresh token
CallGetAccessToken_RefreshWhenMissing(c) ==
    /\ call[c].pc = "idle"
    /\ IF accessToken = None /\ refreshToken = None
       THEN call' = [call EXCEPT ![c] =
                [Begin("getAccessToken") EXCEPT !.pc = "done",
                                 !.res = "NoAccessToken"]]
       ELSE IF accessToken = None \/ NeedsRefresh
       THEN call' = [call EXCEPT ![c] =
                [Begin("getAccessToken") EXCEPT !.pc = "wire",
                                 !.sent = refreshToken, !.wires = 1,
                                 !.body = RefreshParams(refreshToken)]]
       ELSE call' = [call EXCEPT ![c] =
                [Begin("getAccessToken") EXCEPT !.pc = "done",
                                 !.res = "ok", !.ret = accessToken]]
    /\ dirty' = [dirty EXCEPT ![c] = FALSE]
    /\ UNCHANGED <<creds, onTokenRefresh, now, req>>

\* variant: a refresh that another caller has in flight is not repeated
CallGetAccessToken_SingleFlight(c) ==
    /\ call[c].pc = "idle"
    /\ IF accessToken = None
       THEN call' = [call EXCEPT ![c] =
                [Begin("getAccessToken") EXCEPT !.pc = "done",
                                 !.res = "NoAccessToken"]]
       ELSE IF NeedsRefresh
               /\ \A q \in Callers \ {c} : call[q].pc \notin {"wire", "callback"}
       THEN call' = [call EXCEPT ![c] =
                [Begin("getAccessToken") EXCEPT !.pc = "wire",
                                 !.sent = refreshToken, !.wires = 1,
                                 !.body = RefreshParams(refreshToken)]]
       ELSE call' = [call EXCEPT ![c] =
                [Begin("getAccessToken") EXCEPT !.pc = "done",
                                 !.res = "ok", !.ret = accessToken]]
    /\ Clean(c)
    /\ UNCHANGED <<creds, onTokenRefresh, now, req>>

\* getAccessToken(), up to its first await
CallGetAccessToken(c) ==
    /\ call[c].pc = "idle"
    /\ IF accessToken = None
       THEN call' = [call EXCEPT ![c] =
                [Begin("getAccessToken") EXCEPT !.pc = "done",
                                 !.res = "NoAccessToken"]]
       ELSE IF NeedsRefresh
       THEN call' = [call EXCEPT ![c] =
                [Begin("getAccessToken") EXCEPT !.pc = "wire",
                                 !.sent = refreshToken, !.wires = 1,
                                 !.body = RefreshParams(refreshToken)]]
       ELSE call' = [call EXCEPT ![c] =
                [Begin("getAccessToken") EXCEPT !.pc = "done",
                                 !.res = "ok", !.ret = accessToken]]
    /\ Clean(c)
    /\ UNCHANGED <<creds, onTokenRefresh, now, req>>

\* getAuthorizationUrl(scope, state)
CallGetAuthorizationUrl(c, scope, state) ==
    /\ call[c].pc = "idle"
    /\ call' = [call EXCEPT ![c] =
            [Begin("getAuthorizationUrl") EXCEPT
                !.pc = "done", !.res = "ok",
                !.args = [NoArgs EXCEPT !.scope = scope], !.state = state,
                !.url = getAuthorizationUrl(scope, state)]]
    /\ Clean(c)
    /\ UNCHANGED <<creds, onTokenRefresh, now, req>>

\* revokeToken(token?), up to its await
CallRevoke(c, token) ==
    /\ call[c].pc = "idle"
    /\ LET tokenToRevoke == IF token # None THEN token ELSE accessToken
       IN  IF tokenToRevoke = None
           THEN call' = [call EXCEPT ![c] =
                    [Begin("revokeToken") EXCEPT !.pc = "done",
                                     !.tok = token, !.res = "NoTokenToRevoke"]]
           ELSE call' = [call EXCEPT ![c] =
                    [Begin("revokeToken") EXCEPT !.pc = "revokeWire",
                                     !.tok = token, !.sent = tokenToRevoke,
                                     !.wires = 1,
                                     !.body = RevokeParams(tokenToRevoke)]]
    /\ Clean(c)
    /\ UNCHANGED <<creds, onTokenRefresh, now, req>>

\* variant: fields that the argument omits keep their value
setTokens_Merge(at, rt, exp) ==
    /\ accessToken' = at
    /\ refreshToken' = IF rt # None THEN rt ELSE refreshToken
    /\ tokenExpiresAt' = IF exp # NoDate THEN exp ELSE tokenExpiresAt

\* setTokens(tokens): the three assignments
setTokens(at, rt, exp) ==
    /\ accessToken' = at
    /\ refreshToken' = rt
    /\ tokenExpiresAt' = exp

\* setTokens(tokens), called by a caller
CallSetTokens(c, at, rt, exp) ==
    /\ call[c].pc = "idle"
    /\ setTokens(at, rt, exp)
    /\ call' = [call EXCEPT ![c] =
            [Begin("setTokens") EXCEPT
                !.pc = "done", !.res = "ok",
                !.arg = [accessToken |-> at, refreshToken |-> rt,
                         expiresAt |-> exp]]]
    /\ dirty' = [q \in Procs |->
                    IF q = c THEN FALSE
                    ELSE IF IsBusy(q) THEN TRUE ELSE dirty[q]]
    /\ UNCHANGED <<onTokenRefresh, now, req>>

\* what a caller's operation returns once handleTokenResponse has completed
CallReturn(c, resp, at) ==
    IF call[c].op = "getAccessToken"
    THEN [call[c] EXCEPT !.pc = "done", !.res = "ok", !.ret = at,
                         !.resp = resp]
    ELSE [call[c] EXCEPT !.pc = "done", !.res = "ok", !.out = resp,
                         !.resp = resp]

\* variant: onTokenRefresh is invoked before the fields are assigned
CallTokenOk_CallbackFirst(c, resp) ==
    /\ call[c].pc = "wire"
    /\ handleTokenResponse(resp)
    /\ IF onTokenRefresh
       THEN call' = [call EXCEPT ![c] =
                [@ EXCEPT !.pc = "callback", !.resp = resp,
                          !.cbs = Append(@, [arg |-> resp, saw |-> getTokens,
                                             done |-> FALSE])]]
       ELSE call' = [call EXCEPT ![c] = CallReturn(c, resp, accessToken')]
    /\ MarkDirty(c)
    /\ UNCHANGED <<onTokenRefresh, now, req>>

\* the token endpoint answers a caller's POST /oauth2/token:
\* handleTokenResponse assigns the fields and calls onTokenRefresh(response)
CallTokenOk(c, resp) ==
    /\ call[c].pc = "wire"
    /\ handleTokenResponse(resp)
    /\ IF onTokenRefresh
       THEN call' = [call EXCEPT ![c] =
                [@ EXCEPT !.pc = "callback", !.resp = resp,
                          !.cbs = Append(@, [arg |-> resp, saw |-> getTokens',
                                             done |-> FALSE])]]
       ELSE call' = [call EXCEPT ![c] = CallReturn(c, resp, accessToken')]
    /\ MarkDirty(c)
    /\ UNCHANGED <<onTokenRefresh, now, req>>

\* variant: a failed exchange drops the access token held
CallTokenFail_ClearsAccessToken(c) ==
    /\ call[c].pc = "wire"
    /\ call' = [call EXCEPT ![c] = [@ EXCEPT !.pc = "done",
                                             !.res = "WireError"]]
    /\ accessToken' = None
    /\ tokenExpiresAt' = NoDate
    /\ UNCHANGED <<refreshToken, onTokenRefresh, now, req, dirty>>

\* the token endpoint rejects, or cannot be reached
CallTokenFail(c) ==
    /\ call[c].pc = "wire"
    /\ call' = [call EXCEPT ![c] = [@ EXCEPT !.pc = "done",
                                             !.res = "WireError"]]
    /\ UNCHANGED <<creds, onTokenRefresh, now, req, dirty>>

\* the awaited onTokenRefresh callback completes
CallCallbackDone(c) ==
    /\ call[c].pc = "callback"
    /\ call' = [call EXCEPT ![c] =
            [CallReturn(c, call[c].resp, accessToken) EXCEPT
                !.cbs = [@ EXCEPT ![Len(@)].done = TRUE]]]
    /\ UNCHANGED <<creds, onTokenRefresh, now, req, dirty>>

\* variant: a failing callback restores the credentials held before the call
CallCallbackFail_Rollback(c) ==
    /\ call[c].pc = "callback"
    /\ call' = [call EXCEPT ![c] = [@ EXCEPT !.pc = "done",
                                             !.res = "CallbackError"]]
    /\ accessToken' = call[c].pre.at
    /\ refreshToken' = call[c].pre.rt
    /\ tokenExpiresAt' = call[c].pre.exp
    /\ UNCHANGED <<onTokenRefresh, now, req, dirty>>

\* the awaited onTokenRefresh callback throws
CallCallbackFail(c) ==
    /\ call[c].pc = "callback"
    /\ call' = [call EXCEPT ![c] = [@ EXCEPT !.pc = "done",
                                             !.res = "CallbackError"]]
    /\ UNCHANGED <<creds, onTokenRefresh, now, req, dirty>>

\* variant: a successful revocation also drops the refresh token
CallRevokeOk_ClearsRefreshToken(c) ==
    /\ call[c].pc = "revokeWire"
    /\ IF call[c].tok = None \/ call[c].tok = accessToken
       THEN /\ accessToken' = None
            /\ tokenExpiresAt' = NoDate
            /\ refreshToken' = None
            /\ MarkDirty(c)
       ELSE UNCHANGED <<accessToken, tokenExpiresAt, refreshToken, dirty>>
    /\ call' = [call EXCEPT ![c] = [@ EXCEPT !.pc = "done", !.res = "ok"]]
    /\ UNCHANGED <<onTokenRefresh, now, req>>

\* variant: a successful revocation clears the access token whatever token
\* was revoked
CallRevokeOk_ClearsAlways(c) ==
    /\ call[c].pc = "revokeWire"
    /\ accessToken' = None
    /\ tokenExpiresAt' = NoDate
    /\ MarkDirty(c)
    /\ call' = [call EXCEPT ![c] = [@ EXCEPT !.pc = "done", !.res = "ok"]]
    /\ UNCHANGED <<refreshToken, onTokenRefresh, now, req>>

\* POST /oauth2/revoke succeeds
CallRevokeOk(c) ==
    /\ call[c].pc = "revokeWire"
    /\ IF call[c].tok = None \/ call[c].tok = accessToken
       THEN /\ accessToken' = None
            /\ tokenExpiresAt' = NoDate
            /\ MarkDirty(c)
       ELSE UNCHANGED <<accessToken, tokenExpiresAt, dirty>>
    /\ call' = [call EXCEPT ![c] = [@ EXCEPT !.pc = "done", !.res = "ok"]]
    /\ UNCHANGED <<refreshToken, onTokenRefresh, now, req>>

\* POST /oauth2/revoke fails
CallRevokeFail(c) ==
    /\ call[c].pc = "revokeWire"
    /\ call' = [call EXCEPT ![c] = [@ EXCEPT !.pc = "done",
                                             !.res = "WireError"]]
    /\ UNCHANGED <<creds, onTokenRefresh, now, req, dirty>>

\* setTokens(tokens), called by the application before or while requests are
\* under way (a request that has completed is first taken by its caller)
AppSetTokens(at, rt, exp) ==
    /\ \A r \in Reqs : req[r].pc # "done"
    /\ setTokens(at, rt, exp)
    /\ dirty' = [q \in Procs |-> IF IsBusy(q) THEN TRUE ELSE dirty[q]]
    /\ UNCHANGED <<onTokenRefresh, now, call, req>>

\* the caller takes the result and is free to call again
CallFinish(c) ==
    /\ call[c].pc = "done"
    /\ call' = [call EXCEPT ![c] = IdleCall]
    /\ Clean(c)
    /\ UNCHANGED <<creds, onTokenRefresh, now, req>>

\* time passes
Tick ==
    /\ now < MaxTicks * bufferTime
    /\ now' = now + bufferTime
    /\ UNCHANGED <<creds, onTokenRefresh, call, req, dirty>>

\* --------------------------------------------------------- LearnWorldsClient

\* status of an error without a response
NoStatus == 0

\* a response body that carries `message` ("" when the body has none)
Body(m) == <<"body", m>>
NoBody == <<>>
BodyMessage(b) == IF b = NoBody THEN "" ELSE b[2]

\* AxiosError: response (status, data), request, message
HttpErrors(statuses, messages) ==
    [hasResponse : {TRUE}, status : statuses,
     data : {Body(m) : m \in messages},
     hasRequest : {TRUE}, message : {"Request failed with status code"}]

NetworkErrors ==
    [hasResponse : {FALSE}, status : {NoStatus}, data : {NoBody},
     hasRequest : {TRUE}, message : {"Network Error"}]

SetupErrors(messages) ==
    [hasResponse : {FALSE}, status : {NoStatus}, data : {NoBody},
     hasRequest : {FALSE}, message : messages]

\* the failures the resource server produces in the request pipeline
GatewayStatuses == {401, 404, 500}
AxiosErrors ==
    HttpErrors(GatewayStatuses, {"server message"}) \cup NetworkErrors
        \cup SetupErrors({"setup failed"})

\* the arguments handleError is applied to on its own: every row of its
\* switch and a status outside it, with and without a message in the body
\* and in the AxiosError
ErrorStatuses == {400, 401, 403, 404, 422, 429, 500, 503}
ErrorInputs ==
    [hasResponse : {TRUE}, status : ErrorStatuses,
     data : {Body(m) : m \in {"", "server message"}},
     hasRequest : {TRUE}, message : {"", "Request failed with status code"}]
    \cup NetworkErrors
    \cup SetupErrors({"", "setup failed"})

NoErr ==
    [hasResponse |-> FALSE, status |-> NoStatus, data |-> NoBody,
     hasRequest |-> FALSE, message |-> "none"]

\* ApiResponse<T>: success, data, message?, errors?
EnvelopesWith(messages) ==
    [success : {TRUE}, data : {"data"}, message : {""}, errors : {<<>>}]
    \cup
    [success : {FALSE}, data : {"data"}, message : messages,
     errors : {<<"errors">>}]

\* the envelopes the resource server answers in the request pipeline
Envelopes == EnvelopesWith({"", "envelope message"})

NoEnv == [success |-> FALSE, data |-> "none", message |-> "", errors |-> <<>>]

\* what the resource server does with one send
Outcomes ==
    [ok : {TRUE}, err : {NoErr}, env : Envelopes]
    \cup
    [ok : {FALSE}, err : AxiosErrors, env : {NoEnv}]

\* LearnWorldsError: code, status?, message, details?
NoLw == [code |-> "none", status |-> NoStatus, message |-> "", details |-> NoBody]

\* variant: the case of status 429 is missing
StatusCode_NoRateLimit(status) ==
    CASE status = 401 -> "UNAUTHORIZED"
      [] status = 403 -> "FORBIDDEN"
      [] status = 404 -> "NOT_FOUND"
      [] status = 422 -> "VALIDATION_ERROR"
      [] OTHER -> "API_ERROR"

StatusCode(status) ==
    CASE status = 401 -> "UNAUTHORIZED"
      [] status = 403 -> "FORBIDDEN"
      [] status = 404 -> "NOT_FOUND"
      [] status = 422 -> "VALIDATION_ERROR"
      [] status = 429 -> "RATE_LIMIT"
      [] OTHER -> "API_ERROR"

StatusMessage(status, message) ==
    CASE status = 401 -> "Invalid API key or authentication failed"
      [] status = 403 -> "Access denied"
      [] status = 404 -> "Resource not found"
      [] status = 422 -> "Validation failed"
      [] status = 429 -> "Rate limit exceeded"
      [] OTHER -> message

handleError(error) ==
    IF error.hasResponse
    THEN [code |-> StatusCode(error.status),
          status |-> error.status,
          message |-> StatusMessage(error.status,
                        IF BodyMessage(error.data) # ""
                        THEN BodyMessage(error.data)
                        ELSE IF error.message # "" THEN error.message
                        ELSE "API Error"),
          details |-> error.data]
    ELSE IF error.hasRequest
    THEN [code |-> "NETWORK_ERROR", status |-> NoStatus,
          message |-> "Network error - unable to reach API",
          details |-> NoBody]
    ELSE [code |-> "UNKNOWN_ERROR", status |-> NoStatus,
          message |-> IF error.message # "" THEN error.message
                      ELSE "Unknown error occurred",
          details |-> NoBody]

\* variant: the envelope's message is taken as it is
EnvelopeError_NoFallback(env) ==
    [code |-> "API_ERROR", status |-> NoStatus, message |-> env.message,
     details |-> env.errors]

\* the error makeRequest throws for an envelope with success = false
EnvelopeError(env) ==
    [code |-> "API_ERROR", status |-> NoStatus,
     message |-> IF env.message # "" THEN env.message
                 ELSE "API request failed",
     details |-> env.errors]

\* how a call of getAccessToken() by the request interceptor ended: res,
\* "ok" or the failure thrown; token, the string returned; held, whether an
\* access token was held when it was called
NoGot == [res |-> "none", token |-> None, held |-> FALSE]
Pending == [res |-> "pending", token |-> None, held |-> TRUE]
Returned(token) == [res |-> "ok", token |-> token, held |-> TRUE]
Threw(failure, held) == [res |-> failure, token |-> None, held |-> held]

\* the Authorization header: `Bearer ${token}`
Bearer(token) == <<"Bearer", token>>
NoHeader == <<>>

\* pc, stage: where the request stands; retry: originalRequest._retry;
\* hdr: config.headers.Authorization; err: the error the response
\* interceptor was called with; res, error, data: what the caller receives.
\* History: norm, the calls of handleError; inst, the access token that the
\* token endpoint delivered to the refresh of the 401; dlv, the access tokens
\* it delivered to the request since the 401;
\* fails, the failures received, each with whether a refresh token was held
\* then; env, the envelope received; trace, the events in order; hooks, the
\* calls of getAccessToken() made by the request interceptor; got, how the
\* last of them ended.
IdleReq ==
    [pc |-> "idle", stage |-> "hook", retry |-> FALSE, hdr |-> NoHeader,
     err |-> NoErr, res |-> "none", error |-> NoLw, data |-> "none",
     norm |-> 0, inst |-> None, dlv |-> {}, fails |-> <<>>,
     env |-> NoEnv, trace |-> <<>>, hooks |-> 0, got |-> NoGot]

\* events of a request's trace
EvSend == "send"
EvResp(o) ==
    IF o.ok THEN "ok"
    ELSE IF o.err.hasResponse /\ o.err.status = 401 THEN "401"
    ELSE "error"
EvRefresh(stage) == stage
EvInstalled == "installed"
EvRefreshFailed == "refreshFailed"

\* the adapter puts the request on the wire
Send(rq) ==
    [rq EXCEPT !.pc = "sending", !.trace = Append(@, EvSend)]

\* refreshAccessToken() posts the refresh_token grant
StartRefresh(rq, stage) ==
    [rq EXCEPT !.pc = "wire", !.stage = stage,
               !.trace = Append(@, EvRefresh(stage))]

\* variant: a failure of getAccessToken() is not caught, the request is
\* rejected with it
Hook_NoCatch(rq, at, rt, exp, t) ==
    IF at = None
    THEN [rq EXCEPT !.hooks = @ + 1, !.got = Threw("NoAccessToken", FALSE),
                    !.pc = "done", !.res = "error", !.norm = @ + 1,
                    !.error = [code |-> "UNKNOWN_ERROR", status |-> NoStatus,
                               message |-> "No access token available",
                               details |-> NoBody]]
    ELSE IF NeedsRefreshAt(exp, rt, t)
    THEN StartRefresh([rq EXCEPT !.hooks = @ + 1, !.got = Pending], "hook")
    ELSE Send([rq EXCEPT !.hooks = @ + 1, !.got = Returned(at),
                         !.hdr = Bearer(at)])

\* variant: a missing access token is fetched with the refresh token held
Hook_RefreshWhenMissing(rq, at, rt, exp, t) ==
    IF at = None /\ rt = None
    THEN Send([rq EXCEPT !.hooks = @ + 1,
                         !.got = Threw("NoAccessToken", FALSE)])
    ELSE IF at = None \/ NeedsRefreshAt(exp, rt, t)
    THEN StartRefresh([rq EXCEPT !.hooks = @ + 1, !.got = Pending], "hook")
    ELSE Send([rq EXCEPT !.hooks = @ + 1, !.got = Returned(at),
                         !.hdr = Bearer(at)])

\* request interceptor, up to the first await of getAccessToken():
\* rq is sent without touching its header when getAccessToken throws
Hook(rq, at, rt, exp, t) ==
    IF at = None
    THEN Send([rq EXCEPT !.hooks = @ + 1,
                         !.got = Threw("NoAccessToken", FALSE)])
    ELSE IF NeedsRefreshAt(exp, rt, t)
    THEN StartRefresh([rq EXCEPT !.hooks = @ + 1, !.got = Pending], "hook")
    ELSE Send([rq EXCEPT !.hooks = @ + 1, !.got = Returned(at),
                         !.hdr = Bearer(at)])

\* request interceptor, after the refresh inside getAccessToken() returned:
\* `return this.accessToken!` reads the field at that moment
HookReturn(rq, at) ==
    Send([rq EXCEPT !.got = Returned(at), !.hdr = Bearer(at)])

\* request interceptor, after the refresh inside getAccessToken() threw:
\* the catch of line 42 takes it and the request is sent as it is
HookCatch(rq) == Send([rq EXCEPT !.got = Threw("RefreshFailed", TRUE)])

\* variant: the AxiosError is passed on as it is
Reject_Raw(rq, error) ==
    [rq EXCEPT !.pc = "done", !.res = "error",
               !.error = [code |-> "ERR_BAD_RESPONSE", status |-> error.status,
                          message |-> error.message, details |-> error.data]]

\* response interceptor: Promise.reject(this.handleError(error))
Reject(rq, error) ==
    [rq EXCEPT !.pc = "done", !.res = "error", !.error = handleError(error),
               !.norm = @ + 1]

\* variant: the header of the first send is kept
Resend_KeepHeader(rq, token, at, rt, exp, t) ==
    Hook(rq, at, rt, exp, t)

\* response interceptor, line 66: this.http(originalRequest) with the header
\* overwritten; the request interceptor runs again on the same config
Resend(rq, token, at, rt, exp, t) ==
    Hook([rq EXCEPT !.hdr = Bearer(token)], at, rt, exp, t)

\* variant: the token is read from the authority without the expiry test
Refetch_NoExpiryTest(rq, at, rt, exp, t) ==
    IF at = None THEN Reject(rq, rq.err)
    ELSE Resend(rq, at, at, rt, exp, t)

\* response interceptor, line 63: getAccessToken() after refreshAccessToken()
Refetch(rq, at, rt, exp, t) ==
    IF at = None THEN Reject(rq, rq.err)
    ELSE IF NeedsRefreshAt(exp, rt, t) THEN StartRefresh(rq, "refetch")
    ELSE Resend(rq, at, at, rt, exp, t)

\* where a request continues once a refresh it awaited has completed
AfterRefresh(rq, at, rt, exp, t) ==
    CASE rq.stage = "hook" -> HookReturn(rq, at)
      [] rq.stage = "retry" -> Refetch(rq, at, rt, exp, t)
      [] rq.stage = "refetch" -> Resend(rq, at, at, rt, exp, t)

\* the failure of the token endpoint, as the AxiosError the refresh throws
RefreshError ==
    [hasResponse |-> TRUE, status |-> 400, data |-> Body("invalid_grant"),
     hasRequest |-> TRUE, message |-> "Request failed with status code"]

\* variant: the refresh failure is surfaced
AfterRefreshThrow_RefreshError(rq) ==
    IF rq.stage = "hook" THEN HookCatch(rq) ELSE Reject(rq, RefreshError)

\* where a request continues once a refresh it awaited has thrown
AfterRefreshThrow(rq) ==
    IF rq.stage = "hook" THEN HookCatch(rq) ELSE Reject(rq, rq.err)

\* makeRequest: this.http.request(...) runs the request interceptor
Request(r) ==
    /\ req[r].pc = "idle"
    /\ req' = [req EXCEPT ![r] =
                 Hook(IdleReq, accessToken, refreshToken, tokenExpiresAt, now)]
    /\ Clean(r)
    /\ UNCHANGED <<creds, onTokenRefresh, now, call>>

\* the token endpoint answers the refresh a request is waiting for
ReqTokenOk(r, resp) ==
    /\ req[r].pc = "wire"
    /\ handleTokenResponse(resp)
    /\ LET rq == [req[r] EXCEPT
                    !.trace = Append(@, EvInstalled),
                    !.inst = IF req[r].stage = "retry"
                             THEN resp.access_token ELSE @,
                    !.dlv = IF req[r].retry
                            THEN @ \cup {resp.access_token} ELSE @]
       IN  IF onTokenRefresh
           THEN req' = [req EXCEPT ![r] = [rq EXCEPT !.pc = "callback"]]
           ELSE req' = [req EXCEPT ![r] =
                    AfterRefresh(rq, accessToken', refreshToken',
                                 tokenExpiresAt', now)]
    /\ MarkDirty(r)
    /\ UNCHANGED <<onTokenRefresh, now, call>>

\* the token endpoint rejects the refresh, or cannot be reached
ReqTokenFail(r) ==
    /\ req[r].pc = "wire"
    /\ req' = [req EXCEPT ![r] =
            AfterRefreshThrow([req[r] EXCEPT
                                 !.trace = Append(@, EvRefreshFailed)])]
    /\ UNCHANGED <<creds, onTokenRefresh, now, call, dirty>>

\* the onTokenRefresh callback awaited by the request's refresh completes
ReqCallbackDone(r) ==
    /\ req[r].pc = "callback"
    /\ req' = [req EXCEPT ![r] =
            AfterRefresh(req[r], accessToken, refreshToken, tokenExpiresAt,
                         now)]
    /\ UNCHANGED <<creds, onTokenRefresh, now, call, dirty>>

\* the onTokenRefresh callback throws
ReqCallbackFail(r) ==
    /\ req[r].pc = "callback"
    /\ req' = [req EXCEPT ![r] =
            AfterRefreshThrow([req[r] EXCEPT
                                 !.trace = Append(@, EvRefreshFailed)])]
    /\ UNCHANGED <<creds, onTokenRefresh, now, call, dirty>>

Count(trace, ev) == Cardinality({i \in 1 .. Len(trace) : trace[i] = ev})
Sends(trace) == Count(trace, EvSend)

\* the transport hands outcome o of the send to the response interceptor
Received(rq, o, rt) ==
    IF o.ok
    THEN [rq EXCEPT !.trace = Append(@, EvResp(o)), !.env = o.env]
    ELSE [rq EXCEPT !.trace = Append(@, EvResp(o)), !.err = o.err,
                    !.fails = Append(@, [err |-> o.err, held |-> rt # None])]

\* variant: the request is not marked as retried
Respond_NoMark(rq, o, rt) ==
    LET got == Received(rq, o, rt)
    IN  IF o.ok
        THEN IF o.env.success
             THEN [got EXCEPT !.pc = "done", !.res = "data",
                              !.data = o.env.data]
             ELSE [got EXCEPT !.pc = "done", !.res = "error",
                              !.error = EnvelopeError(o.env)]
        ELSE IF got.err.hasResponse /\ got.err.status = 401 /\ ~got.retry
                /\ rt # None
             THEN StartRefresh(got, "retry")
             ELSE Reject(got, got.err)

\* variant: the error of the previous failure is surfaced
Respond_StaleError(rq, o, rt) ==
    LET got == Received(rq, o, rt)
    IN  IF o.ok
        THEN IF o.env.success
             THEN [got EXCEPT !.pc = "done", !.res = "data",
                              !.data = o.env.data]
             ELSE [got EXCEPT !.pc = "done", !.res = "error",
                              !.error = EnvelopeError(o.env)]
        ELSE IF got.err.hasResponse /\ got.err.status = 401 /\ ~got.retry
                /\ rt # None
             THEN StartRefresh([got EXCEPT !.retry = TRUE], "retry")
             ELSE Reject(got, IF rq.retry THEN rq.err ELSE got.err)

\* variant: every failure with a response is retried
Respond_RetryAny(rq, o, rt) ==
    LET got == Received(rq, o, rt)
    IN  IF o.ok
        THEN IF o.env.success
             THEN [got EXCEPT !.pc = "done", !.res = "data",
                              !.data = o.env.data]
             ELSE [got EXCEPT !.pc = "done", !.res = "error",
                              !.error = EnvelopeError(o.env)]
        ELSE IF got.err.hasResponse /\ ~got.retry /\ rt # None
             THEN StartRefresh([got EXCEPT !.retry = TRUE], "retry")
             ELSE Reject(got, got.err)

\* variant: the marker is kept on the client, shared by all requests
Respond_SharedMarker(rq, o, rt) ==
    LET got == Received(rq, o, rt)
    IN  IF o.ok
        THEN IF o.env.success
             THEN [got EXCEPT !.pc = "done", !.res = "data",
                              !.data = o.env.data]
             ELSE [got EXCEPT !.pc = "done", !.res = "error",
                              !.error = EnvelopeError(o.env)]
        ELSE IF got.err.hasResponse /\ got.err.status = 401
                /\ (\A q \in Reqs : ~req[q].retry) /\ rt # None
             THEN StartRefresh([got EXCEPT !.retry = TRUE], "retry")
             ELSE Reject(got, got.err)

\* variant: a 401 is retried however often the request was retried before
Respond_RetryEvery401(rq, o, rt) ==
    LET got == Received(rq, o, rt)
    IN  IF o.ok
        THEN IF o.env.success
             THEN [got EXCEPT !.pc = "done", !.res = "data",
                              !.data = o.env.data]
             ELSE [got EXCEPT !.pc = "done", !.res = "error",
                              !.error = EnvelopeError(o.env)]
        ELSE IF got.err.hasResponse /\ got.err.status = 401 /\ rt # None
             THEN StartRefresh([got EXCEPT !.retry = TRUE], "retry")
             ELSE Reject(got, got.err)

\* response interceptor, error branch, and makeRequest's envelope test
Respond(rq, o, rt) ==
    LET got == Received(rq, o, rt)
    IN  IF o.ok
        THEN IF o.env.success
             THEN [got EXCEPT !.pc = "done", !.res = "data",
                              !.data = o.env.data]
             ELSE [got EXCEPT !.pc = "done", !.res = "error",
                              !.error = EnvelopeError(o.env)]
        ELSE IF got.err.hasResponse /\ got.err.status = 401 /\ ~got.retry
                /\ rt # None
             THEN StartRefresh([got EXCEPT !.retry = TRUE], "retry")
             ELSE Reject(got, got.err)

\* the resource server answers (or fails) the request that is on the wire
ReqRespond(r, o) ==
    /\ req[r].pc = "sending"
    /\ Sends(req[r].trace) < MaxSends
    /\ req' = [req EXCEPT ![r] = Respond(req[r], o, refreshToken)]
    /\ UNCHANGED <<creds, onTokenRefresh, now, call, dirty>>

\* the response interceptor is called with a failure that it does not
\* retry: line 73, Promise.reject(this.handleError(error))
ReqNormalize(r) ==
    /\ req[r].pc = "failed"
    /\ req' = [req EXCEPT ![r] = Reject(req[r], req[r].err)]
    /\ UNCHANGED <<creds, onTokenRefresh, now, call, dirty>>

\* the caller takes the result; the next call is a new logical request
ReqFinish(r) ==
    /\ req[r].pc = "done"
    /\ req' = [req EXCEPT ![r] = IdleReq]
    /\ Clean(r)
    /\ UNCHANGED <<creds, onTokenRefresh, now, call>>

\* ---------------------------------------------------------- specifications

\* after construction: credentials pre-seeded from the configuration or not
Init ==
    /\ accessToken \in {None, 1}
    /\ refreshToken \in {None, 1}
    /\ tokenExpiresAt = NoDate
    /\ onTokenRefresh \in BOOLEAN
    /\ now = 0
    /\ call = [c \in Callers |-> IdleCall]
    /\ req = [r \in Reqs |-> IdleReq]
    /\ dirty = [p \in Procs |-> FALSE]

CallNext(c) ==
    \/ \E op \in GrantOps : \E args \in GrantArgs(op) : CallGrant(c, op, args)
    \/ CallRefresh(c)
    \/ CallGetAccessToken(c)
    \/ \E scope \in {"", "the scope"}, state \in {"", "the state"} :
          CallGetAuthorizationUrl(c, scope, state)
    \/ \E token \in OptTokens : CallRevoke(c, token)
    \/ \E at \in Tokens, rt \in OptTokens, exp \in SetDates :
          CallSetTokens(c, at, rt, exp)
    \/ \E resp \in TokenResponses : CallTokenOk(c, resp)
    \/ CallTokenFail(c)
    \/ CallCallbackDone(c)
    \/ CallCallbackFail(c)
    \/ CallRevokeOk(c)
    \/ CallRevokeFail(c)
    \/ CallFinish(c)

\* what the token endpoint answers to the refresh of a request: any access
\* token, any lifetime, the refresh token kept or replaced
GatewayResponses ==
    [access_token : Tokens, refresh_token : {None, 1},
     expires_in : ExpiresInValues]

ReqNext(r) ==
    \/ Request(r)
    \/ \E resp \in GatewayResponses : ReqTokenOk(r, resp)
    \/ ReqTokenFail(r)
    \/ ReqCallbackDone(r)
    \/ ReqCallbackFail(r)
    \/ \E o \in Outcomes : ReqRespond(r, o)
    \/ ReqFinish(r)

\* the gateway runs one request after the other while the application may
\* restore credentials with setTokens at any moment
Next ==
    \/ ReqNext("r1")
    \/ \E at \in Tokens, rt \in {None, 1}, exp \in SetDates :
          AppSetTokens(at, rt, exp)
    \/ Tick

\* the TokenAuthority alone, used by one caller
NextAuth == CallNext("c1") \/ Tick

\* the TokenAuthority shared by two callers: c1 revokes while c2 runs
\* grants, refreshes and setTokens; every await of c1 and c2 is a point where
\* the other continues
NextRevoke ==
    \/ \E token \in OptTokens : CallRevoke("c1", token)
    \/ CallRevokeOk("c1")
    \/ CallRevokeFail("c1")
    \/ CallFinish("c1")
    \/ CallGrant("c2", "authenticateWithClientCredentials", NoArgs)
    \/ CallRefresh("c2")
    \/ \E at \in Tokens, rt \in OptTokens, exp \in SetDates :
          CallSetTokens("c2", at, rt, exp)
    \/ \E resp \in TokenResponses : CallTokenOk("c2", resp)
    \/ CallTokenFail("c2")
    \/ CallCallbackDone("c2")
    \/ CallCallbackFail("c2")
    \/ CallFinish("c2")

\* handleError on its own: a request has failed with any of ErrorInputs
InitNorm ==
    /\ accessToken \in {None, 1}
    /\ refreshToken \in {None, 1}
    /\ tokenExpiresAt = NoDate
    /\ onTokenRefresh \in BOOLEAN
    /\ now = 0
    /\ call = [c \in Callers |-> IdleCall]
    /\ \E e \in ErrorInputs :
          req = [r \in Reqs |-> [IdleReq EXCEPT !.pc = "failed", !.err = e]]
    /\ dirty = [p \in Procs |-> FALSE]

NextNorm == ReqNormalize("r1")

\* what the token endpoint answers to the refreshes of concurrent callers:
\* with and without a rotated refresh token, with and without a lifetime
RaceResponses ==
    [access_token : Tokens, refresh_token : {None, 1}, expires_in : {0, 600}]

\* one caller of getAccessToken() among several: its steps up to the return
RaceNext(c) ==
    \/ CallGetAccessToken(c)
    \/ \E resp \in RaceResponses : CallTokenOk(c, resp)
    \/ CallTokenFail(c)
    \/ CallCallbackDone(c)
    \/ CallCallbackFail(c)
    \/ CallFinish(c)

\* two callers of getAccessToken() on one TokenAuthority, after the
\* application restored a session with setTokens
NextRace ==
    \/ \E rt \in {None, 1}, exp \in SetDates :
          CallSetTokens("c1", 1, rt, exp)
    \/ RaceNext("c1")
    \/ RaceNext("c2")

\* what the resource server and the token endpoint answer to requests in
\* flight together: data or 401; a fresh token with a lifetime
PairOutcomes ==
    {o \in Outcomes :
        \/ o.ok /\ o.env.success
        \/ ~o.ok /\ o.err.hasResponse /\ o.err.status = 401}

PairResponses ==
    [access_token : Tokens, refresh_token : {None}, expires_in : {600}]

\* one request among several in flight
PairNext(r) ==
    \/ Request(r)
    \/ \E resp \in PairResponses : ReqTokenOk(r, resp)
    \/ ReqTokenFail(r)
    \/ ReqCallbackDone(r)
    \/ ReqCallbackFail(r)
    \/ \E o \in PairOutcomes : ReqRespond(r, o)
    \/ ReqFinish(r)

\* two requests in flight on one gateway
NextPair == PairNext("r1") \/ PairNext("r2")

\* c1 calls getAccessToken() while c2 restores a session, refreshes and
\* revokes on the same TokenAuthority
NextFetch ==
    \/ RaceNext("c1")
    \/ \E rt \in {None, 1}, exp \in SetDates : CallSetTokens("c2", 1, rt, exp)
    \/ CallRefresh("c2")
    \/ \E resp \in RaceResponses : CallTokenOk("c2", resp)
    \/ CallTokenFail("c2")
    \/ CallCallbackDone("c2")
    \/ CallCallbackFail("c2")
    \/ \E token \in OptTokens : CallRevoke("c2", token)
    \/ CallRevokeOk("c2")
    \/ CallRevokeFail("c2")
    \/ CallFinish("c2")

\* the gateway runs requests while a caller restores a session and revokes
NextGate ==
    \/ PairNext("r1")
    \/ \E rt \in {None, 1}, exp \in SetDates : CallSetTokens("c1", 1, rt, exp)
    \/ \E token \in OptTokens : CallRevoke("c1", token)
    \/ CallRevokeOk("c1")
    \/ CallRevokeFail("c1")
    \/ CallFinish("c1")

\* what the token endpoint answers while requests and the application share
\* the credentials: a fresh access token with a lifetime
LiveResponses ==
    [access_token : {MaxToken}, refresh_token : {None}, expires_in : {600}]

\* the steps of request r that its wire calls and its callback take: the
\* token endpoint answers or fails, the callback completes or throws, the
\* resource server answers or fails
ReqStep(r) ==
    \/ \E resp \in LiveResponses : ReqTokenOk(r, resp)
    \/ ReqTokenFail(r)
    \/ ReqCallbackDone(r)
    \/ ReqCallbackFail(r)
    \/ \E o \in PairOutcomes : ReqRespond(r, o)

\* two requests in flight on one gateway while the application restores on
\* its TokenAuthority a session whose access token has expired
NextLive ==
    \/ \E r \in Reqs : Request(r)
    \/ \E r \in Reqs : ReqStep(r)
    \/ \E r \in Reqs : ReqFinish(r)
    \/ AppSetTokens(1, 1, 0)

Spec == Init /\ [][Next]_vars
\* every wire call eventually responds or fails and every onTokenRefresh
\* callback eventually completes
SpecLive ==
    /\ Init
    /\ [][NextLive]_vars
    /\ \A r \in Reqs : WF_vars(ReqStep(r))
SpecGate == Init /\ [][NextGate]_vars
SpecFetch == Init /\ [][NextFetch]_vars
SpecPair == Init /\ [][NextPair]_vars
SpecRace == Init /\ [][NextRace]_vars
SpecNorm == InitNorm /\ [][NextNorm]_vars
SpecRevoke == Init /\ [][NextRevoke]_vars
SpecAuth == Init /\ [][NextAuth]_vars

\* ------------------------------------------------------------ properties

Last(seq) == seq[Len(seq)]
Is401(error) == error.hasResponse /\ error.status = 401
RefreshOps == GrantOps \cup {"refreshAccessToken"}

\* C1: whatever the resource server answers, a request is put on the wire
\* at most twice, it enters Refreshing at most once, and it is marked as
\* retried from the moment it enters Refreshing.
C1_AtMostOneRetry ==
    \A r \in Reqs :
        /\ Sends(req[r].trace) <= 2
        /\ Count(req[r].trace, "retry") <= 1
        /\ Count(req[r].trace, "retry") = 1 => req[r].retry

\* C1, witness: both sends of a request were answered with 401
C1_Witness ==
    \E r \in Reqs :
        /\ req[r].pc = "done"
        /\ Sends(req[r].trace) = 2
        /\ Count(req[r].trace, "401") = 2

\* the parts of C2 that do not depend on the token of the resend: a first
\* 401 received while a refresh token is held starts the refresh, and a
\* resend answered with a success envelope gives its data to the caller
C2_RefreshAndResult(r) ==
    /\ (/\ Len(req[r].fails) >= 1
        /\ Is401(req[r].fails[1].err)
        /\ req[r].fails[1].held)
       => Count(req[r].trace, "retry") = 1
    /\ (/\ req[r].pc = "done"
        /\ Sends(req[r].trace) = 2
        /\ Last(req[r].trace) = "ok"
        /\ req[r].env.success)
       => (req[r].res = "data" /\ req[r].data = req[r].env.data)

\* C2 as stated: the resend carries the access token installed by the
\* refresh that the 401 started, absent concurrent credential changes.
C2_Original ==
    \A r \in Reqs :
        /\ C2_RefreshAndResult(r)
        /\ (req[r].pc = "sending" /\ req[r].retry /\ ~dirty[r])
           => (/\ Sends(req[r].trace) = 2
               /\ req[r].hdr = Bearer(req[r].inst))

\* C2, amended: absent concurrent credential changes, the resend carries an
\* access token that the token endpoint delivered to the request since the
\* 401 (the refresh of the 401, or a later refresh that getAccessToken()
\* made in the re-fetch or in the hook), and it is the token held at the
\* resend when none of these refreshes failed; a first 401 with a refresh
\* token held starts the refresh, and a successful resend gives its data to
\* the caller.
C2_ResendCarriesRefreshedToken ==
    \A r \in Reqs :
        /\ C2_RefreshAndResult(r)
        /\ (req[r].pc = "sending" /\ req[r].retry /\ ~dirty[r])
           => /\ Sends(req[r].trace) = 2
              /\ \E token \in req[r].dlv : req[r].hdr = Bearer(token)
              /\ Count(req[r].trace, "refreshFailed") = 0
                    => req[r].hdr = Bearer(accessToken)

\* C2, witness: a resend that followed a second refresh returned data
C2_Witness ==
    \E r \in Reqs :
        /\ req[r].pc = "done"
        /\ req[r].res = "data"
        /\ Sends(req[r].trace) = 2
        /\ Count(req[r].trace, "refetch") = 1
        /\ req[r].hdr # Bearer(req[r].inst)
        /\ ~dirty[r]

\* C3: when the resend fails too, the caller receives the failure of the
\* resend, normalized once, and nothing is started after it.
C3_SecondFailureSurfaced ==
    \A r \in Reqs :
        Len(req[r].fails) = 2 =>
            /\ req[r].pc = "done"
            /\ req[r].res = "error"
            /\ req[r].error = handleError(req[r].fails[2].err)
            /\ req[r].norm = 1
            /\ Sends(req[r].trace) = 2
            /\ Count(req[r].trace, "retry") = 1
            /\ Last(req[r].trace) \in {"401", "error"}

\* C3, witness: the resend was answered with 401 again, a refresh token
\* still being held
C3_Witness ==
    \E r \in Reqs :
        /\ Len(req[r].fails) = 2
        /\ Is401(req[r].fails[2].err)
        /\ req[r].fails[2].held

\* C4: when the refresh started by the 401 fails, the request is not
\* resent and the caller receives the normalized original 401.
C4_RefreshFailureSurfacesOriginal ==
    \A r \in Reqs :
        (/\ req[r].stage \in {"retry", "refetch"}
         /\ req[r].trace # <<>>
         /\ Last(req[r].trace) = "refreshFailed") =>
            /\ req[r].pc = "done"
            /\ Sends(req[r].trace) = 1
            /\ req[r].res = "error"
            /\ req[r].error = handleError(req[r].fails[1].err)
            /\ req[r].error.code = "UNAUTHORIZED"
            /\ req[r].error.status = 401
            /\ req[r].norm = 1

\* C4, witness: the refresh of the 401 failed
C4_Witness ==
    \E r \in Reqs :
        /\ req[r].pc = "done"
        /\ req[r].stage = "retry"
        /\ Last(req[r].trace) = "refreshFailed"

\* C5: a 401 received while no refresh token is held, a failure with
\* another status and a failure without a response are final: the
\* normalized error is surfaced and nothing follows in the request's trace.
C5_OtherFailuresNotRetried ==
    \A r \in Reqs :
        \A i \in 1 .. Len(req[r].fails) :
            (~Is401(req[r].fails[i].err) \/ ~req[r].fails[i].held) =>
                /\ i = Len(req[r].fails)
                /\ req[r].pc = "done"
                /\ req[r].res = "error"
                /\ req[r].error = handleError(req[r].fails[i].err)
                /\ req[r].norm = 1
                /\ Last(req[r].trace) \in {"401", "error"}

\* C5, witness: a first 401 received while no refresh token was held
C5_Witness ==
    \E r \in Reqs :
        /\ Len(req[r].fails) = 1
        /\ Is401(req[r].fails[1].err)
        /\ ~req[r].fails[1].held
        /\ Sends(req[r].trace) = 1

\* C6: getAccessToken(), called with an access token, an expiry and a
\* refresh token held at or after expiry minus 5 minutes, makes one
\* refresh_token exchange and returns the access token it delivered.
C6_ExpiringTokenRefreshedOnce ==
    \A c \in Callers :
        (/\ call[c].op = "getAccessToken"
         /\ call[c].pre.at # None
         /\ call[c].pre.exp # NoDate
         /\ call[c].pre.rt # None
         /\ call[c].pre.now >= call[c].pre.exp - 5 * 60 * 1000) =>
            /\ call[c].wires = 1
            /\ call[c].sent = call[c].pre.rt
            /\ call[c].pc \in {"wire", "callback", "done"}
            /\ call[c].pc = "done" =>
                  call[c].res \in {"ok", "WireError", "CallbackError"}
            /\ (call[c].pc = "done" /\ call[c].res = "ok" /\ ~dirty[c]) =>
                  (/\ call[c].ret = call[c].resp.access_token
                   /\ call[c].ret = accessToken)

\* C6, witness: called exactly at expiry minus 5 minutes, the call returned
\* a token other than the stored one
C6_Witness ==
    \E c \in Callers :
        /\ call[c].op = "getAccessToken"
        /\ call[c].pc = "done"
        /\ call[c].res = "ok"
        /\ call[c].pre.exp # NoDate
        /\ call[c].pre.now = call[c].pre.exp - 5 * 60 * 1000
        /\ call[c].ret # call[c].pre.at

\* C7: getAccessToken(), called with an access token held and no expiry, or
\* no refresh token, or an expiry more than 5 minutes ahead, makes no wire
\* call, leaves the credentials as they were and returns the stored token.
C7_ValidTokenReturnedUntouched ==
    \A c \in Callers :
        (/\ call[c].op = "getAccessToken"
         /\ call[c].pre.at # None
         /\ \/ call[c].pre.exp = NoDate
            \/ call[c].pre.rt = None
            \/ call[c].pre.exp - 5 * 60 * 1000 > call[c].pre.now) =>
            /\ call[c].pc = "done"
            /\ call[c].res = "ok"
            /\ call[c].ret = call[c].pre.at
            /\ call[c].wires = 0
            /\ ~dirty[c] =>
                  (/\ accessToken = call[c].pre.at
                   /\ refreshToken = call[c].pre.rt
                   /\ tokenExpiresAt = call[c].pre.exp)

\* C7, witness: the stored token was past its expiry and no refresh token
\* was held
C7_Witness ==
    \E c \in Callers :
        /\ call[c].op = "getAccessToken"
        /\ call[c].pc = "done"
        /\ call[c].res = "ok"
        /\ call[c].pre.exp # NoDate
        /\ call[c].pre.now > call[c].pre.exp
        /\ call[c].pre.rt = None

\* the operation of caller c failed with `failure` before any wire call and
\* left the credentials as they were
FailedLocally(c, failure) ==
    /\ call[c].pc = "done"
    /\ call[c].res = failure
    /\ call[c].wires = 0
    /\ call[c].sent = None
    /\ ~dirty[c] =>
          (/\ accessToken = call[c].pre.at
           /\ refreshToken = call[c].pre.rt
           /\ tokenExpiresAt = call[c].pre.exp)

\* C8: getAccessToken() without an access token fails with NoAccessToken,
\* refreshAccessToken() without a refresh token with NoRefreshToken,
\* revokeToken() without argument and access token with NoTokenToRevoke;
\* each without a wire call and without touching the credentials.
C8_PreconditionFailuresAreLocal ==
    \A c \in Callers :
        /\ (call[c].op = "getAccessToken" /\ call[c].pre.at = None)
           => FailedLocally(c, "NoAccessToken")
        /\ (call[c].op = "refreshAccessToken" /\ call[c].pre.rt = None)
           => FailedLocally(c, "NoRefreshToken")
        /\ (/\ call[c].op = "revokeToken"
            /\ call[c].tok = None
            /\ call[c].pre.at = None)
           => FailedLocally(c, "NoTokenToRevoke")

\* C8, witness: getAccessToken() failed while a refresh token was held
C8_Witness ==
    \E c \in Callers :
        /\ call[c].op = "getAccessToken"
        /\ call[c].res = "NoAccessToken"
        /\ call[c].pre.rt # None

\* C9: when a grant or a refresh has returned and nothing else has written
\* the credentials, an access token is held, it is the response's
\* access_token, and the value returned is the response.
C9_GrantInstallsAccessToken ==
    \A c \in Callers :
        (/\ call[c].op \in RefreshOps
         /\ call[c].pc = "done"
         /\ call[c].res = "ok"
         /\ ~dirty[c]) =>
            /\ isAuthenticated
            /\ getTokens.accessToken = call[c].resp.access_token
            /\ call[c].resp \in TokenResponses
            /\ call[c].out = call[c].resp

\* C9, witness: a client-credentials grant returned to a caller that held no
\* access token before
C9_Witness ==
    \E c \in Callers :
        /\ call[c].op = "authenticateWithClientCredentials"
        /\ call[c].pc = "done"
        /\ call[c].res = "ok"
        /\ call[c].pre.at = None

\* C10: once a token response has been installed, the refresh token held is
\* the response's when it has one and the one held before otherwise; a
\* refresh token held before is never cleared.
C10_RefreshTokenKeptOrReplaced ==
    \A c \in Callers :
        (call[c].resp # NoResp /\ ~dirty[c]) =>
            /\ refreshToken =
                  IF call[c].resp.refresh_token # None
                  THEN call[c].resp.refresh_token
                  ELSE call[c].pre.rt
            /\ call[c].pre.rt # None => refreshToken # None

\* C10, witness: a grant whose response had no refresh_token, made while a
\* refresh token was held
C10_Witness ==
    \E c \in Callers :
        /\ call[c].op \in GrantOps
        /\ call[c].resp # NoResp
        /\ call[c].resp.refresh_token = None
        /\ call[c].pre.rt # None

\* C11: once revokeToken(), called without argument or with the access token
\* held at the call, has succeeded, no access token and no expiry are held,
\* isAuthenticated() is false and the refresh token is the one held before
\* the call; the token put on the wire was the access token held.
C11_RevokeClearsAccessOnly ==
    \A c \in Callers :
        (/\ call[c].op = "revokeToken"
         /\ call[c].pc = "done"
         /\ call[c].res = "ok"
         /\ call[c].tok = None \/ call[c].tok = call[c].pre.at
         /\ ~dirty[c]) =>
            /\ accessToken = None
            /\ tokenExpiresAt = NoDate
            /\ ~isAuthenticated
            /\ getTokens.accessToken = None
            /\ getTokens.expiresAt = NoDate
            /\ refreshToken = call[c].pre.rt
            /\ call[c].sent = call[c].pre.at
            /\ call[c].wires = 1

\* C11, witness: the access token held was revoked by name while an expiry
\* and a refresh token were held
C11_Witness ==
    \E c \in Callers :
        /\ call[c].op = "revokeToken"
        /\ call[c].pc = "done"
        /\ call[c].res = "ok"
        /\ call[c].tok # None
        /\ call[c].tok = call[c].pre.at
        /\ call[c].pre.exp # NoDate
        /\ call[c].pre.rt # None

\* C12: revokeToken(t) with t other than the access token held puts t on
\* the wire and, whether the revocation succeeds or fails, leaves access
\* token, refresh token and expiry as they were, so that isAuthenticated()
\* stays true when it was.
C12_RevokeOtherTokenKeepsState ==
    \A c \in Callers :
        (/\ call[c].op = "revokeToken"
         /\ call[c].tok # None
         /\ call[c].tok # call[c].pre.at) =>
            /\ call[c].pc \in {"revokeWire", "done"}
            /\ call[c].sent = call[c].tok
            /\ call[c].wires = 1
            /\ call[c].pc = "done" => call[c].res \in {"ok", "WireError"}
            /\ ~dirty[c] =>
                  /\ accessToken = call[c].pre.at
                  /\ refreshToken = call[c].pre.rt
                  /\ tokenExpiresAt = call[c].pre.exp
                  /\ isAuthenticated <=> call[c].pre.at # None

\* C12, witness: another token was revoked while an access token with an
\* expiry was held
C12_Witness ==
    \E c \in Callers :
        /\ call[c].op = "revokeToken"
        /\ call[c].pc = "done"
        /\ call[c].res = "ok"
        /\ call[c].tok # None
        /\ call[c].tok # call[c].pre.at
        /\ call[c].pre.at # None
        /\ call[c].pre.exp # NoDate
        /\ isAuthenticated

\* C13: whatever grants, refreshes and setTokens calls run between the
\* steps of revokeToken, a successful revocation that clears an access
\* token clears the token it put on the wire, never another one.
C13_RevokeClearsOnlyTokenSent ==
    [][\A c \in Callers :
          (/\ call[c].pc = "revokeWire"
           /\ call'[c].pc = "done"
           /\ call'[c].res = "ok"
           /\ accessToken # None
           /\ accessToken' = None)
          => accessToken = call[c].sent]_vars

\* C14: with onTokenRefresh configured, a call whose token exchange has
\* succeeded has invoked the callback exactly once, with the response the
\* endpoint delivered, at a moment when getTokens() already showed the
\* response's access token, and it returns only after the callback has
\* completed; no callback is invoked without a successful exchange.
C14_CallbackOnceAfterInstall ==
    \A c \in Callers :
        /\ (onTokenRefresh /\ call[c].resp # NoResp) =>
              /\ Len(call[c].cbs) = 1
              /\ call[c].cbs[1].arg = call[c].resp
              /\ call[c].cbs[1].saw.accessToken = call[c].resp.access_token
              /\ call[c].pc \in {"callback", "done"}
              /\ call[c].pc = "callback" => ~call[c].cbs[1].done
              /\ (call[c].pc = "done" /\ call[c].res = "ok")
                    => call[c].cbs[1].done
              /\ (call[c].pc = "done" /\ call[c].res # "ok")
                    => (call[c].res = "CallbackError" /\ ~call[c].cbs[1].done)
        /\ (~onTokenRefresh \/ call[c].resp = NoResp) => call[c].cbs = <<>>

\* C14, witness: a refresh that replaced the access token has returned after
\* its callback completed
C14_Witness ==
    \E c \in Callers :
        /\ call[c].op = "refreshAccessToken"
        /\ call[c].pc = "done"
        /\ call[c].res = "ok"
        /\ Len(call[c].cbs) = 1
        /\ call[c].cbs[1].done
        /\ call[c].pre.at # call[c].resp.access_token

\* C15: setTokens returns at once, without a wire call and without invoking
\* onTokenRefresh, and getTokens() then equals its argument: a refresh token
\* or an expiry that the argument omits is absent afterwards.
C15_SetTokensOverwrites ==
    \A c \in Callers :
        call[c].op = "setTokens" =>
            /\ call[c].pc = "done"
            /\ call[c].res = "ok"
            /\ call[c].wires = 0
            /\ call[c].sent = None
            /\ call[c].cbs = <<>>
            /\ ~dirty[c] =>
                  /\ getTokens = call[c].arg
                  /\ call[c].arg.refreshToken = None => refreshToken = None
                  /\ call[c].arg.expiresAt = NoDate => tokenExpiresAt = NoDate

\* C15, witness: setTokens with only an access token, called while a refresh
\* token and an expiry were held and a callback was configured
C15_Witness ==
    \E c \in Callers :
        /\ call[c].op = "setTokens"
        /\ call[c].arg.refreshToken = None
        /\ call[c].arg.expiresAt = NoDate
        /\ call[c].pre.rt # None
        /\ call[c].pre.exp # NoDate
        /\ onTokenRefresh

\* C16: the request interceptor calls getAccessToken() once before each
\* send, the original one and the resend; when the call returns a token the
\* request goes on the wire with `Bearer <that token>`; when it throws the
\* request goes on the wire all the same, and what the caller receives in
\* the end is the envelope's error or the normalized failure of a send,
\* never the failure of getAccessToken().
C16_HookBeforeEverySend ==
    \A r \in Reqs :
        /\ Sends(req[r].trace) <= req[r].hooks
        /\ req[r].hooks <= Sends(req[r].trace) + 1
        /\ req[r].hooks > Sends(req[r].trace) =>
              /\ req[r].pc \in {"wire", "callback"}
              /\ req[r].stage = "hook"
              /\ req[r].got.res = "pending"
        /\ req[r].pc = "sending" =>
              /\ req[r].hooks = Sends(req[r].trace)
              /\ req[r].got.res \in {"ok", "NoAccessToken", "RefreshFailed"}
              /\ req[r].got.res = "ok" =>
                    req[r].hdr = Bearer(req[r].got.token)
        /\ req[r].got.res \in {"NoAccessToken", "RefreshFailed"} =>
              /\ req[r].hooks = Sends(req[r].trace)
              /\ req[r].pc # "idle"
              /\ Last(req[r].trace) = "send" => req[r].pc = "sending"
        /\ (req[r].pc = "done" /\ req[r].res = "error") =>
              \/ /\ Last(req[r].trace) = "ok"
                 /\ req[r].error = EnvelopeError(req[r].env)
              \/ \E i \in 1 .. Len(req[r].fails) :
                    req[r].error = handleError(req[r].fails[i].err)

\* C16, witness: getAccessToken() threw in the hook of the resend, and the
\* resend returned data to the caller
C16_Witness ==
    \E r \in Reqs :
        /\ req[r].pc = "done"
        /\ req[r].res = "data"
        /\ Sends(req[r].trace) = 2
        /\ req[r].hooks = 2
        /\ req[r].got.res = "RefreshFailed"

\* C17: a request goes on the wire without Authorization header only when no
\* access token was held when the request interceptor called
\* getAccessToken(): NoAccessToken is the only failure that the interceptor
\* swallows, and a request sent while an access token was held carries a
\* credential.
C17_NoHeaderOnlyWithoutToken ==
    \A r \in Reqs :
        req[r].pc = "sending" =>
            /\ req[r].hdr = NoHeader => ~req[r].got.held
            /\ req[r].got.res # "ok" => req[r].got.res = "NoAccessToken"
            /\ req[r].got.held => req[r].hdr # NoHeader

\* C18: a response received with an envelope ends the request: with
\* success = false the caller receives an error with code API_ERROR, the
\* envelope's message ("API request failed" when it has none), the
\* envelope's errors as details and no status, although the transport
\* reported success; with success = true the caller receives the envelope's
\* data; no refresh and no send follows.
C18_EnvelopeDecidesResult ==
    \A r \in Reqs :
        (req[r].trace # <<>> /\ Last(req[r].trace) = "ok") =>
            /\ req[r].pc = "done"
            /\ Count(req[r].trace, "ok") = 1
            /\ req[r].env.success =>
                  /\ req[r].res = "data"
                  /\ req[r].data = req[r].env.data
            /\ ~req[r].env.success =>
                  /\ req[r].res = "error"
                  /\ req[r].error.code = "API_ERROR"
                  /\ req[r].error.message =
                        IF req[r].env.message # "" THEN req[r].env.message
                        ELSE "API request failed"
                  /\ req[r].error.details = req[r].env.errors
                  /\ req[r].error.status = NoStatus
                  /\ req[r].norm = 0

\* C18, witness: the first send was answered with an envelope that has
\* success = false and no message, a refresh token being held
C18_Witness ==
    \E r \in Reqs :
        /\ req[r].pc = "done"
        /\ Last(req[r].trace) = "ok"
        /\ ~req[r].env.success
        /\ req[r].env.message = ""
        /\ Sends(req[r].trace) = 1
        /\ refreshToken # None

\* C19: handleError gives every failure one code: by the status of the
\* response 401 UNAUTHORIZED, 403 FORBIDDEN, 404 NOT_FOUND, 422
\* VALIDATION_ERROR, 429 RATE_LIMIT, any other status API_ERROR; without a
\* response NETWORK_ERROR when the request was sent and UNKNOWN_ERROR when it
\* was not; status and details (the response body) are set when there is a
\* response and only then.
C19_ErrorClassification ==
    \A r \in Reqs :
        (req[r].pc = "done" /\ req[r].res = "error" /\ req[r].norm = 1) =>
            LET e == req[r].err
                n == req[r].error
            IN  /\ e.hasResponse =>
                      /\ e.status = 401 => n.code = "UNAUTHORIZED"
                      /\ e.status = 403 => n.code = "FORBIDDEN"
                      /\ e.status = 404 => n.code = "NOT_FOUND"
                      /\ e.status = 422 => n.code = "VALIDATION_ERROR"
                      /\ e.status = 429 => n.code = "RATE_LIMIT"
                      /\ e.status \notin {401, 403, 404, 422, 429}
                            => n.code = "API_ERROR"
                      /\ n.status = e.status
                      /\ n.details = e.data
                /\ (~e.hasResponse /\ e.hasRequest) =>
                      n.code = "NETWORK_ERROR"
                /\ (~e.hasResponse /\ ~e.hasRequest) =>
                      n.code = "UNKNOWN_ERROR"
                /\ ~e.hasResponse =>
                      (n.status = NoStatus /\ n.details = NoBody)

\* C19, witness: a response with status 429 has been normalized
C19_Witness ==
    \E r \in Reqs :
        /\ req[r].pc = "done"
        /\ req[r].norm = 1
        /\ req[r].err.hasResponse
        /\ req[r].err.status = 429
        /\ req[r].error.code = "RATE_LIMIT"

\* C20: when there is a response, the message of the normalized error is
\* the message of the response body whenever the body has one, for every
\* status; the default of the status's row is used only when the body has
\* none.
C20_ServerMessageOverrides ==
    \A r \in Reqs :
        (/\ req[r].pc = "done"
         /\ req[r].res = "error"
         /\ req[r].norm = 1
         /\ req[r].err.hasResponse) =>
            LET e == req[r].err
                n == req[r].error
            IN  /\ BodyMessage(e.data) # "" =>
                      n.message = BodyMessage(e.data)
                /\ BodyMessage(e.data) = "" =>
                      /\ e.status = 401 =>
                            n.message =
                               "Invalid API key or authentication failed"
                      /\ e.status = 403 => n.message = "Access denied"
                      /\ e.status = 404 => n.message = "Resource not found"
                      /\ e.status = 422 => n.message = "Validation failed"
                      /\ e.status = 429 => n.message = "Rate limit exceeded"
                      /\ e.status \notin {401, 403, 404, 422, 429} =>
                            n.message = IF e.message # "" THEN e.message
                                        ELSE "API Error"

\* C21: callers of getAccessToken() that find the access token within 5
\* minutes of its expiry and a refresh token held each post their own
\* refresh_token exchange, whether or not another one is in flight, and none
\* waits for another; every response processed is installed over whatever
\* is held, and nothing else in getAccessToken() writes the credentials, so
\* that the credentials held in the end are those of the response processed
\* last.
C21_ConcurrentRefreshesLastWins ==
    /\ [](\A c \in Callers :
            (/\ call[c].op = "getAccessToken"
             /\ call[c].pre.at # None
             /\ call[c].pre.exp # NoDate
             /\ call[c].pre.rt # None
             /\ call[c].pre.now >= call[c].pre.exp - 5 * 60 * 1000) =>
                /\ call[c].wires = 1
                /\ call[c].sent = call[c].pre.rt
                /\ call[c].pc \in {"wire", "callback", "done"})
    /\ [][/\ \A c \in Callers :
               (/\ call[c].op = "getAccessToken"
                /\ call[c].pc = "wire"
                /\ call'[c].resp # NoResp) =>
                   /\ accessToken' = call'[c].resp.access_token
                   /\ refreshToken' =
                         IF call'[c].resp.refresh_token # None
                         THEN call'[c].resp.refresh_token
                         ELSE refreshToken
                   /\ tokenExpiresAt' =
                         IF call'[c].resp.expires_in # 0
                         THEN now + call'[c].resp.expires_in * 1000
                         ELSE tokenExpiresAt
          /\ creds' # creds =>
                \E c \in Callers :
                   \/ call[c].pc = "wire" /\ call'[c].resp # NoResp
                   \/ call[c].pc = "idle" /\ call'[c].op = "setTokens"]_vars

\* C21, witness: two calls of getAccessToken() have returned, each after its
\* own exchange, each having had its response processed while the other was
\* under way, and the access token held is the one of a response
C21_Witness ==
    /\ \A c \in Callers :
          /\ call[c].op = "getAccessToken"
          /\ call[c].pc = "done"
          /\ call[c].res = "ok"
          /\ call[c].wires = 1
          /\ dirty[c]
    /\ call["c1"].resp.access_token # call["c2"].resp.access_token
    /\ accessToken = call["c2"].resp.access_token

\* C22: a request that fails hands its caller an error whose code is one of
\* the eight codes of the gateway, made by handleError from a failure of a
\* send or by makeRequest from the envelope; when getAccessToken() or
\* refreshAccessToken() threw while the request was processed, the caller
\* still receives such an error and not that failure.
C22_OnlyNormalizedErrorsSurface ==
    \A r \in Reqs :
        (req[r].pc = "done" /\ req[r].res = "error") =>
            /\ req[r].error.code \in
                  {"UNAUTHORIZED", "FORBIDDEN", "NOT_FOUND",
                   "VALIDATION_ERROR", "RATE_LIMIT", "API_ERROR",
                   "NETWORK_ERROR", "UNKNOWN_ERROR"}
            /\ IF Last(req[r].trace) = "ok"
               THEN /\ req[r].norm = 0
                    /\ req[r].error.code = "API_ERROR"
                    /\ req[r].error.message \in
                          {req[r].env.message, "API request failed"}
               ELSE /\ req[r].norm = 1
                    /\ req[r].fails # <<>>
                    /\ req[r].error.status = Last(req[r].fails).err.status
                    /\ req[r].error.details = Last(req[r].fails).err.data
                    /\ Last(req[r].fails).err.hasResponse =>
                          req[r].error.status \in GatewayStatuses

\* C22, witness: the refresh started by a 401 failed after the hook's
\* getAccessToken() had thrown too, and the caller received UNAUTHORIZED
C22_Witness ==
    \E r \in Reqs :
        /\ req[r].pc = "done"
        /\ req[r].res = "error"
        /\ req[r].got.res \in {"NoAccessToken", "RefreshFailed"}
        /\ req[r].stage = "retry"
        /\ Last(req[r].trace) = "refreshFailed"
        /\ req[r].error.code = "UNAUTHORIZED"

\* C23: the body of every POST to /oauth2/token and /oauth2/revoke has
\* client_id and client_secret from the configuration and, besides, exactly
\* the parameters of its grant: grant_type with code and redirect_uri, with
\* username and password, alone, or with the refresh token held; token for a
\* revocation; and scope exactly when the caller of the password or
\* client-credentials grant gave a non-empty one.
C23_WireBodyExact ==
    \A c \in Callers :
        call[c].wires = 1 =>
            LET b == call[c].body
                names == {p[1] : p \in b}
                own == names \ {"client_id", "client_secret", "scope"}
            IN  /\ <<"client_id", "the client id">> \in b
                /\ <<"client_secret", "the client secret">> \in b
                /\ Cardinality(b) = Cardinality(names)
                /\ "scope" \in names <=>
                      (/\ call[c].op \in {"authenticateWithPassword",
                                          "authenticateWithClientCredentials"}
                       /\ call[c].args.scope # "")
                /\ "scope" \in names => <<"scope", call[c].args.scope>> \in b
                /\ call[c].op = "exchangeAuthorizationCode" =>
                      /\ own = {"grant_type", "code", "redirect_uri"}
                      /\ <<"grant_type", "authorization_code">> \in b
                      /\ <<"code", call[c].args.code>> \in b
                      /\ <<"redirect_uri", call[c].args.redirectUri>> \in b
                /\ call[c].op = "authenticateWithPassword" =>
                      /\ own = {"grant_type", "username", "password"}
                      /\ <<"grant_type", "password">> \in b
                      /\ <<"username", call[c].args.username>> \in b
                      /\ <<"password", call[c].args.password>> \in b
                /\ call[c].op = "authenticateWithClientCredentials" =>
                      /\ own = {"grant_type"}
                      /\ <<"grant_type", "client_credentials">> \in b
                /\ call[c].op \in {"refreshAccessToken", "getAccessToken"} =>
                      /\ own = {"grant_type", "refresh_token"}
                      /\ <<"grant_type", "refresh_token">> \in b
                      /\ <<"refresh_token", call[c].pre.rt>> \in b
                      /\ call[c].pre.rt # None
                /\ call[c].op = "revokeToken" =>
                      /\ own = {"token"}
                      /\ <<"token", call[c].sent>> \in b
                      /\ call[c].sent # None

\* C23, witness: authenticateWithClientCredentials() without scope has
\* returned, and its body had no scope parameter
C23_Witness ==
    \E c \in Callers :
        /\ call[c].op = "authenticateWithClientCredentials"
        /\ call[c].args.scope = ""
        /\ call[c].pc = "done"
        /\ call[c].res = "ok"
        /\ \A p \in call[c].body : p[1] # "scope"

\* C24: getAuthorizationUrl(scope, state) returns at once, with no wire
\* call and the credentials as they were, a URL of /oauth2/authorize whose
\* parameters are client_id, the configured redirect_uri,
\* response_type=code, the scope (read_user_profile when none is given) and,
\* exactly when a non-empty state is given, that state.
C24_AuthorizationUrl ==
    \A c \in Callers :
        call[c].op = "getAuthorizationUrl" =>
            /\ call[c].pc = "done"
            /\ call[c].res = "ok"
            /\ call[c].wires = 0
            /\ call[c].body = {}
            /\ call[c].cbs = <<>>
            /\ call[c].url.path = "/oauth2/authorize"
            /\ call[c].url.params =
                  {<<"client_id", "the client id">>,
                   <<"redirect_uri", "the redirect uri">>,
                   <<"response_type", "code">>,
                   <<"scope", IF call[c].args.scope # ""
                              THEN call[c].args.scope
                              ELSE "read_user_profile">>}
                  \cup (IF call[c].state # ""
                        THEN {<<"state", call[c].state>>} ELSE {})
            /\ (\E p \in call[c].url.params : p[1] = "state")
                  <=> call[c].state # ""
            /\ ~dirty[c] =>
                  /\ accessToken = call[c].pre.at
                  /\ refreshToken = call[c].pre.rt
                  /\ tokenExpiresAt = call[c].pre.exp

\* C24, witness: the URL was built without state while an access token with
\* an expiry was held
C24_Witness ==
    \E c \in Callers :
        /\ call[c].op = "getAuthorizationUrl"
        /\ call[c].state = ""
        /\ call[c].args.scope # ""
        /\ call[c].pre.at # None
        /\ call[c].pre.exp # NoDate

\* C25: whenever a request goes on the wire while an access token is held,
\* its Authorization header is `Bearer` with that token, the one that
\* getAccessToken() returned in the hook of this send: a send that follows
\* setTokens or a refresh carries the token held now.
C25_SendCarriesHeldToken ==
    [][\A r \in Reqs :
          (req[r].pc # "sending" /\ req'[r].pc = "sending"
             /\ accessToken' # None) =>
              /\ req'[r].got.res = "ok"
              /\ req'[r].hdr = Bearer(req'[r].got.token)
              /\ req'[r].hdr = Bearer(accessToken')]_vars

\* C26: with several requests in flight, each request keeps its own
\* already-retried marker: a first 401 received while a refresh token is
\* held starts the request's refresh whatever the markers of the other
\* requests are, no request is refreshed or resent twice, and a request's
\* marker changes only in a step of that request.
C26_RetryMarkerPerRequest ==
    /\ [](\A r \in Reqs :
            /\ Count(req[r].trace, "retry") <= 1
            /\ Sends(req[r].trace) <= 2
            /\ req[r].retry <=> Count(req[r].trace, "retry") = 1
            /\ (/\ Len(req[r].fails) >= 1
                /\ req[r].fails[1].err.hasResponse
                /\ req[r].fails[1].err.status = 401
                /\ req[r].fails[1].held)
               => Count(req[r].trace, "retry") = 1)
    /\ [][\A r \in Reqs :
            req'[r].retry # req[r].retry =>
               \A q \in Reqs \ {r} : req'[q] = req[q]]_vars

\* C26, witness: two requests in flight together have each been refreshed
\* and resent once
C26_Witness ==
    /\ \A r \in Reqs :
          /\ req[r].pc = "sending"
          /\ req[r].retry
          /\ Sends(req[r].trace) = 2
          /\ Count(req[r].trace, "retry") = 1
    /\ dirty["r1"]
    /\ dirty["r2"]

\* the events of a trace from its first 401 on
SinceFirst401(trace) ==
    IF Count(trace, "401") = 0 THEN <<>>
    ELSE LET i == CHOOSE j \in 1 .. Len(trace) :
                     /\ trace[j] = "401"
                     /\ \A k \in 1 .. j - 1 : trace[k] # "401"
         IN  SubSeq(trace, i, Len(trace))

\* the refresh_token exchanges a request started from its first 401 on
ExchangesSince401(trace) ==
    Count(SinceFirst401(trace), "retry")
        + Count(SinceFirst401(trace), "refetch")
        + Count(SinceFirst401(trace), "hook")

\* C27 as stated: from the 401 to the completion of the resend a request
\* makes exactly one refresh_token exchange, whatever the response's
\* expires_in.
C27_Original ==
    \A r \in Reqs :
        req[r].retry =>
            /\ ExchangesSince401(req[r].trace) = 1
            /\ Count(req[r].trace, "refetch") = 0

\* C27, amended: handling one 401 makes the exchange of refreshAccessToken()
\* and at most one more in the re-fetch and one more in the hook of the
\* resend, three at most; when the refresh of the 401 has succeeded, the
\* re-fetch makes a further exchange exactly when the expiry now held is
\* not more than 5 minutes ahead and a refresh token is held (a lifetime of
\* 300 seconds or less, or a response without expires_in that left an
\* earlier expiry in place), and otherwise the request is resent at once.
C27_ExchangesFollowExpiry ==
    /\ [](\A r \in Reqs :
            /\ ExchangesSince401(req[r].trace) <= 3
            /\ Count(req[r].trace, "retry") <= 1
            /\ Count(req[r].trace, "refetch") <= 1
            /\ Count(SinceFirst401(req[r].trace), "hook") <= 1
            /\ req[r].retry => ExchangesSince401(req[r].trace) >= 1)
    /\ [][\A r \in Reqs :
            (/\ req[r].stage = "retry"
             /\ req[r].pc \in {"wire", "callback"}
             /\ req'[r].pc \notin {"callback", "done"}
             /\ req'[r] # req[r]
             /\ accessToken' # None) =>
                IF /\ tokenExpiresAt' # NoDate
                   /\ refreshToken' # None
                   /\ now >= tokenExpiresAt' - 5 * 60 * 1000
                THEN /\ req'[r].pc = "wire"
                     /\ req'[r].stage = "refetch"
                     /\ Last(req'[r].trace) = "refetch"
                ELSE /\ req'[r].pc = "sending"
                     /\ req'[r].stage = "retry"
                     /\ Last(req'[r].trace) = "send"
                     /\ ExchangesSince401(req'[r].trace) = 1]_vars

\* C27, witness: a resend returned data after three exchanges: the refresh
\* of the 401, one in the re-fetch and one in the hook of the resend
C27_Witness ==
    \E r \in Reqs :
        /\ req[r].pc = "done"
        /\ req[r].res = "data"
        /\ ExchangesSince401(req[r].trace) = 3
        /\ Count(req[r].trace, "refreshFailed") = 0

\* C28: whatever revocations, setTokens calls and refreshes run between the
\* steps of getAccessToken(), a call that returns returns an access token,
\* never an absent value.
C28_ReturnsDefinedToken ==
    \A c \in Callers :
        (/\ call[c].op = "getAccessToken"
         /\ call[c].pc = "done"
         /\ call[c].res = "ok") =>
            call[c].ret # None

\* C29: once a grant or a refresh has installed its response and nothing
\* else has written the credentials, the expiry held is absent or is the
\* time of the installation plus the response's expires_in; it is never the
\* expiry that was held before the call.
C29_ExpiryBelongsToToken ==
    \A c \in Callers :
        (/\ call[c].resp # NoResp
         /\ ~dirty[c]
         /\ accessToken = call[c].resp.access_token) =>
            \/ tokenExpiresAt = NoDate
            \/ /\ call[c].resp.expires_in # 0
               /\ \E k \in 0 .. MaxTicks + 1 :
                     /\ call[c].pre.now <= k * (5 * 60 * 1000)
                     /\ k * (5 * 60 * 1000) <= now
                     /\ tokenExpiresAt =
                           k * (5 * 60 * 1000)
                              + call[c].resp.expires_in * 1000

\* revokeToken() without argument has succeeded and its caller has not
\* called anything since, in this step either
Revoked(c) ==
    /\ call[c].op = "revokeToken"
    /\ call[c].tok = None
    /\ call[c].pc = "done"
    /\ call[c].res = "ok"
    /\ call'[c] = call[c]

\* C30 as stated: after revokeToken() without argument has succeeded, no
\* access token is held until the caller calls a grant, refreshAccessToken()
\* or setTokens(); the requests of the gateway never bring one back.
C30_Original ==
    [][(accessToken = None /\ \E c \in Callers : Revoked(c))
          => accessToken' = None]_vars

\* C30, amended: after revokeToken() without argument has succeeded, and
\* until the caller calls a grant, refreshAccessToken() or setTokens(), an
\* access token is held again only when a refresh_token exchange made by a
\* gateway request completes: the refresh of a request that received a 401
\* while a refresh token was held, or a refresh that a request had in flight
\* when the revocation completed. The hook of a request that begins while no
\* access token is held starts no refresh and sends the request without
\* credential, and with no refresh token held the requests of the gateway
\* never bring an access token back.
C30_RequestsReacquireOnlyByRefresh ==
    [][(accessToken = None /\ \E c \in Callers : Revoked(c)) =>
          /\ accessToken' # None =>
                \E r \in Reqs :
                   /\ req[r].pc = "wire"
                   /\ Last(req[r].trace) \in {"retry", "refetch", "hook"}
                   /\ Count(req'[r].trace, "installed")
                         = Count(req[r].trace, "installed") + 1
                   /\ req[r].stage = "retry" =>
                         Count(req[r].trace, "401") = 1
          /\ \A r \in Reqs :
                (req[r].pc # "wire" /\ req'[r].pc = "wire") =>
                   /\ req'[r].stage = "retry"
                   /\ Last(req[r].trace) = "send"
                   /\ refreshToken # None
                   /\ accessToken' = None
          /\ \A r \in Reqs :
                (req[r].pc = "idle" /\ req'[r].pc # "idle") =>
                   /\ req'[r].pc = "sending"
                   /\ req'[r].hdr = NoHeader
                   /\ accessToken' = None
          /\ (refreshToken = None
              /\ \A r \in Reqs : req[r].pc \notin {"wire", "callback"})
                => accessToken' = None]_vars

\* C30, witness: after a revocation without argument, a request sent without
\* credential received a 401 and its refresh installed an access token
C30_Witness ==
    /\ call["c1"].op = "revokeToken"
    /\ call["c1"].tok = None
    /\ call["c1"].pc = "done"
    /\ call["c1"].res = "ok"
    /\ accessToken # None
    /\ \E r \in Reqs :
          /\ req[r].got.res = "NoAccessToken"
          /\ Count(req[r].trace, "retry") = 1
          /\ Count(req[r].trace, "installed") = 1

\* C31: when the wire call of a grant, of a refresh or of a revocation has
\* failed, the operation has failed, the credentials are those held when the
\* operation was called (nobody else having written them meanwhile), and
\* onTokenRefresh was not invoked.
C31_WireFailureLeavesCredentials ==
    \A c \in Callers :
        (call[c].res = "WireError" /\ ~dirty[c]) =>
            /\ call[c].pc = "done"
            /\ call[c].wires = 1
            /\ call[c].ret = None
            /\ call[c].out = NoResp
            /\ call[c].cbs = <<>>
            /\ accessToken = call[c].pre.at
            /\ refreshToken = call[c].pre.rt
            /\ tokenExpiresAt = call[c].pre.exp

\* C31, witness: a refresh made with credentials with an expiry failed on
\* the wire while onTokenRefresh is configured
C31_Witness ==
    \E c \in Callers :
        /\ call[c].op = "refreshAccessToken"
        /\ call[c].res = "WireError"
        /\ call[c].pre.at # None
        /\ call[c].pre.exp # NoDate
        /\ accessToken = call[c].pre.at
        /\ onTokenRefresh

\* C32: when the onTokenRefresh callback of a grant or of a refresh has
\* failed, the operation has failed with that failure and returned nothing,
\* and the credentials of the token response stay installed (nobody else
\* having written them meanwhile): isAuthenticated() is true and
\* getTokens().accessToken is the access_token of the response.
C32_CallbackFailureKeepsCredentials ==
    \A c \in Callers :
        (call[c].res = "CallbackError" /\ ~dirty[c]) =>
            /\ call[c].pc = "done"
            /\ call[c].op \in RefreshOps \cup {"getAccessToken"}
            /\ call[c].ret = None
            /\ call[c].out = NoResp
            /\ Len(call[c].cbs) = 1
            /\ call[c].cbs[1].arg = call[c].resp
            /\ call[c].resp \in TokenResponses
            /\ isAuthenticated
            /\ getTokens.accessToken = call[c].resp.access_token
            /\ call[c].resp.refresh_token # None =>
                  getTokens.refreshToken = call[c].resp.refresh_token
            /\ call[c].resp.refresh_token = None =>
                  getTokens.refreshToken = call[c].pre.rt

\* C32, witness: the callback of a refresh failed after the response replaced
\* the access token and the refresh token held before
C32_Witness ==
    \E c \in Callers :
        /\ call[c].op = "refreshAccessToken"
        /\ call[c].res = "CallbackError"
        /\ call[c].pre.at # None
        /\ call[c].pre.at # call[c].resp.access_token
        /\ call[c].pre.rt # call[c].resp.refresh_token
        /\ accessToken = call[c].resp.access_token
        /\ refreshToken = call[c].resp.refresh_token

\* a request that has begun and whose outcome has not been surfaced yet
InFlight(r) == req[r].pc \in {"sending", "wire", "callback"}

\* C33: if every wire call eventually responds or fails and every
\* onTokenRefresh callback eventually completes, every gateway request that
\* has begun eventually reaches a terminal outcome, data returned or an error
\* surfaced, whatever the other requests and the application do meanwhile; a
\* request in flight waits only for its own wire call or callback, never for
\* another request, and it is sent at most twice and retried at most once.
C33_EveryRequestTerminates ==
    /\ \A r \in Reqs :
          (req[r].pc # "idle") ~>
              (req[r].pc = "done" /\ req[r].res \in {"data", "error"})
    /\ [](\A r \in Reqs :
             /\ req[r].pc \in {"idle", "done"} \/ InFlight(r)
             /\ InFlight(r) => ENABLED ReqStep(r)
             /\ Sends(req[r].trace) <= 2
             /\ Count(req[r].trace, "retry") <= 1)

\* C33, witness: a request was retried, fetched a token again and was
\* resent, and reached its outcome while another request was waiting for the
\* token endpoint
C33_Witness ==
    \E r, q \in Reqs :
        /\ r # q
        /\ req[r].pc = "done"
        /\ Sends(req[r].trace) = 2
        /\ Count(req[r].trace, "retry") = 1
        /\ Count(req[r].trace, "installed") >= 2
        /\ req[q].pc = "wire"

====
